---- MODULE Spec2Model ----
(***************************************************************************)
(* Drill-down time series dashboard (interactive_time_series_dashboard.py) *)
(*                                                                         *)
(* The module-level data (df, daily_avg, hourly_avg) is built once at      *)
(* import; every browser session owns a dcc.Store 'current-view' and the   *)
(* figure of the dcc.Graph 'chart'; the callback update_graph maps the     *)
(* triggering input, the chart's clickData and the stored level to a new   *)
(* figure and a new stored level.                                          *)
(*                                                                         *)
(* Time is scaled: a timestamp is the number of seconds since start_date   *)
(* (negative before it), and a day has HoursPerDay hours of                *)
(* MinutesPerHour minutes of SecondsPerMinute seconds.  A value (a float   *)
(* in the program) is an exact rational [num, den].                        *)
(***************************************************************************)
EXTENDS Integers, Sequences, FiniteSets, TLC

VARIABLES df, daily_avg, hourly_avg, current_view, figure, last_call, alone,
          selects

vars == <<df, daily_avg, hourly_avg, current_view, figure, last_call, alone,
          selects>>

----------------------------------------------------------------------------
(* Bounds of the model *)

\* num_days (7 in the program)
NumDays == 2

\* hours of a day (24), minutes of an hour (60), seconds of a minute (60)
HoursPerDay == 2

MinutesPerHour == 2

SecondsPerMinute == 2

\* seeds of the pseudo-random generator behind np.random.rand()
MaxSeed == 2

Seeds == 1..MaxSeed

----------------------------------------------------------------------------
(* Calendar arithmetic: datetime, timedelta, pd.Timestamp, pd.Timedelta *)

SecondsPerHour == MinutesPerHour * SecondsPerMinute

\* range(86400): the seconds of a day
SecondsPerDay == HoursPerDay * SecondsPerHour

\* datetime(2024, 1, 1), the origin of the time axis
start_date == 0

\* timedelta(days=d), timedelta(seconds=s), pd.Timedelta(hours=h), (minutes=m)
timedelta(days, hours, minutes, seconds) ==
    days * SecondsPerDay + hours * SecondsPerHour
        + minutes * SecondsPerMinute + seconds

\* .date() / .dt.date: the calendar date, as days since start_date
DateOf(t) == (t - start_date) \div SecondsPerDay

\* .hour / .dt.hour
HourOf(t) == ((t - start_date) % SecondsPerDay) \div SecondsPerHour

\* .minute
MinuteOf(t) == ((t - start_date) % SecondsPerHour) \div SecondsPerMinute

\* pd.Timestamp(date) / pd.to_datetime(date): midnight of a date
TimestampOfDate(date) == start_date + timedelta(date, 0, 0, 0)

\* pd.to_datetime(x) of an axis value x, a date-time text with the fields
\* date, hour, minute, second
to_datetime(x) == start_date + timedelta(x.date, x.hour, x.minute, x.second)

\* replace(second=0): the clicked minute is kept
ReplaceSecondOnly(t) ==
    start_date + timedelta(DateOf(t), HourOf(t), MinuteOf(t), 0)

\* Timestamp.replace(minute=0, second=0)
ReplaceMinuteSecond(t) ==
    start_date + timedelta(DateOf(t), HourOf(t), 0, 0)

----------------------------------------------------------------------------
(* Values *)

Rat(n, d) == [num |-> n, den |-> d]

RECURSIVE SumNum(_)
SumNum(values) ==
    IF values = <<>> THEN 0
    ELSE Head(values).num + SumNum(Tail(values))

\* .sum() in place of .mean()
MeanIsSum(values) == Rat(SumNum(values), 1)

\* Series.mean() of raw values (each of denominator 1)
Mean(values) == Rat(SumNum(values), Len(values))

\* np.random.rand() * 100, floored: draw k of the generator seeded with seed
Rand(seed, k) == ((seed + k) * (seed + k) * 37 + k * 11) % 100

\* 50 * np.sin(second * 2 * np.pi / 86400), by its piecewise linear
\* approximation through the quarter points of the day
DailyCycle(second) ==
    IF 4 * second <= SecondsPerDay
    THEN (50 * 4 * second) \div SecondsPerDay
    ELSE IF 4 * second <= 3 * SecondsPerDay
         THEN (50 * (2 * SecondsPerDay - 4 * second)) \div SecondsPerDay
         ELSE (50 * (4 * second - 4 * SecondsPerDay)) \div SecondsPerDay

----------------------------------------------------------------------------
(* Mock data and the aggregates built from it at import *)

\* the row appended for second k of the span: day k \div 86400, second
\* k % 86400 of that day
Row(start, seed, k) ==
    LET date == start + timedelta(k \div SecondsPerDay, 0, 0, 0)
        second == k % SecondsPerDay
        timestamp == date + timedelta(0, 0, 0, second)
        value == Rat(Rand(seed, k) + DailyCycle(second), 1)
    IN  [timestamp |-> timestamp, value |-> value]

\* range(1, 86400): the first second of every day is missing
generate_mock_data_skips_midnight(start, seed) ==
    SelectSeq([n \in 1..(NumDays * SecondsPerDay) |-> Row(start, seed, n - 1)],
              LAMBDA row : (row.timestamp - start) % SecondsPerDay # 0)

generate_mock_data(start, seed) ==
    [n \in 1..(NumDays * SecondsPerDay) |-> Row(start, seed, n - 1)]

\* df['date'] = df['timestamp'].dt.date; df['hour'] = df['timestamp'].dt.hour
WithDateHour(data) ==
    [i \in DOMAIN data |->
        [timestamp |-> data[i].timestamp, value |-> data[i].value,
         date |-> DateOf(data[i].timestamp), hour |-> HourOf(data[i].timestamp)]]

\* the group keys in descending order
RECURSIVE SortedSeqDescending(_)
SortedSeqDescending(S) ==
    IF S = {} THEN <<>>
    ELSE LET m == CHOOSE a \in S : \A b \in S : a >= b
         IN  <<m>> \o SortedSeqDescending(S \ {m})

\* the elements of a finite set of integers in ascending order (groupby
\* sorts the group keys)
RECURSIVE SortedSeq(_)
SortedSeq(S) ==
    IF S = {} THEN <<>>
    ELSE LET m == CHOOSE a \in S : \A b \in S : a <= b
         IN  <<m>> \o SortedSeq(S \ {m})

Column(rows) == [i \in DOMAIN rows |-> rows[i].value]

\* df.groupby(df['timestamp'].dt.date)['value'].mean().reset_index(), with
\* the timestamp column pd.to_datetime(daily_avg['date'])
DailyAvgOf(data) ==
    LET keys == SortedSeq({DateOf(data[i].timestamp) : i \in DOMAIN data})
    IN  [j \in DOMAIN keys |->
            [date |-> keys[j],
             value |-> Mean(Column(SelectSeq(data,
                          LAMBDA row : DateOf(row.timestamp) = keys[j]))),
             timestamp |-> TimestampOfDate(keys[j])]]

RECURSIVE Concat(_)
Concat(seqs) == IF seqs = <<>> THEN <<>> ELSE Head(seqs) \o Concat(Tail(seqs))

\* df.groupby(['date', 'hour'])['value'].mean().reset_index(), with the
\* timestamp column pd.to_datetime(date) + pd.to_timedelta(hour, unit='h')
HourlyAvgOf(data) ==
    LET dates == SortedSeq({data[i].date : i \in DOMAIN data})
        HoursOf(date) ==
            SortedSeq({data[i].hour : i \in {n \in DOMAIN data : data[n].date = date}})
        GroupsOf(date) ==
            [j \in DOMAIN HoursOf(date) |->
                [date |-> date,
                 hour |-> HoursOf(date)[j],
                 value |-> Mean(Column(SelectSeq(data,
                              LAMBDA row : row.date = date
                                           /\ row.hour = HoursOf(date)[j]))),
                 timestamp |-> TimestampOfDate(date)
                               + timedelta(0, HoursOf(date)[j], 0, 0)]]
    IN  Concat([d \in DOMAIN dates |-> GroupsOf(dates[d])])

----------------------------------------------------------------------------
(* The chart builders *)

Figure(rows, title) ==
    [x |-> [i \in DOMAIN rows |-> rows[i].timestamp],
     y |-> [i \in DOMAIN rows |-> rows[i].value],
     title |-> title]

create_weekly_chart ==
    Figure(daily_avg, <<"Weekly Overview (Click on a point to see daily data)">>)

\* the filter compares the timestamp itself with the date
create_daily_chart_midnight(date) ==
    LET day_data == SelectSeq(hourly_avg, LAMBDA row : row.timestamp = TimestampOfDate(date))
    IN  Figure(day_data, <<"Hourly Data for", date>>)

create_daily_chart(date) ==
    LET day_data == SelectSeq(hourly_avg, LAMBDA row : DateOf(row.timestamp) = date)
    IN  Figure(day_data, <<"Hourly Data for", date>>)

\* the window includes its end: timestamp <= end_time
create_hourly_chart_inclusive(date, hour) ==
    LET start_time == TimestampOfDate(date) + timedelta(0, hour, 0, 0)
        end_time == start_time + timedelta(0, 1, 0, 0)
        hour_data == SelectSeq(df, LAMBDA row : row.timestamp >= start_time
                                                /\ row.timestamp <= end_time)
    IN  Figure(hour_data, <<"Minute Data for", date, hour>>)

create_hourly_chart(date, hour) ==
    LET start_time == TimestampOfDate(date) + timedelta(0, hour, 0, 0)
        end_time == start_time + timedelta(0, 1, 0, 0)
        hour_data == SelectSeq(df, LAMBDA row : row.timestamp >= start_time
                                                /\ row.timestamp < end_time)
    IN  Figure(hour_data, <<"Minute Data for", date, hour>>)

\* the window excludes its start: timestamp > start_time
create_second_chart_exclusive(start_time) ==
    LET end_time == start_time + timedelta(0, 0, 1, 0)
        minute_data == SelectSeq(df, LAMBDA row : row.timestamp > start_time
                                                  /\ row.timestamp < end_time)
    IN  Figure(minute_data, <<"Second-level Data for", DateOf(start_time),
                              HourOf(start_time), MinuteOf(start_time)>>)

create_second_chart(start_time) ==
    LET end_time == start_time + timedelta(0, 0, 1, 0)
        minute_data == SelectSeq(df, LAMBDA row : row.timestamp >= start_time
                                                  /\ row.timestamp < end_time)
    IN  Figure(minute_data, <<"Second-level Data for", DateOf(start_time),
                              HourOf(start_time), MinuteOf(start_time)>>)

----------------------------------------------------------------------------
(* The callback *)

\* clickData of a chart that was never clicked
None == [none |-> TRUE]

\* clickData = {'points': [{'x': x}]}
ClickOn(x) == [points |-> <<[x |-> x]>>]

\* dash.callback_context.triggered: empty on the call made at page load,
\* else the property that changed, as the pair id.property
NoTrigger == <<>>

ResetTrigger == <<[prop_id |-> <<"reset-button", "n_clicks">>]>>

ChartTrigger == <<[prop_id |-> <<"chart", "clickData">>]>>

Return(fig, view) == [figure |-> fig, current_view |-> view]

\* the x of the clicked point, parsed: pd.to_datetime(clickData['points'][0]['x'])
Clicked(clickData) == to_datetime(clickData.points[1].x)

\* the untriggered call keeps the stored level
OnNoTriggerKeepsLevel(clickData, view) == Return(create_weekly_chart, view)

\* if not ctx.triggered
OnNoTrigger(clickData, view) == Return(create_weekly_chart, "weekly")

\* the reset keeps the stored level
OnResetKeepsLevel(clickData, view) == Return(create_weekly_chart, view)

\* if trigger_id == 'reset-button'
OnReset(clickData, view) == Return(create_weekly_chart, "weekly")

\* the click on the weekly view opens the clicked hour
OnWeeklyClickSkipsDaily(clickData, view) ==
    LET clicked_datetime == Clicked(clickData)
    IN  Return(create_hourly_chart(DateOf(clicked_datetime),
                                   HourOf(clicked_datetime)), "hourly")

\* if current_view == 'weekly'
OnWeeklyClick(clickData, view) ==
    LET clicked_date == DateOf(Clicked(clickData))
    IN  Return(create_daily_chart(clicked_date), "daily")

\* the clicked hour is dropped
OnDailyClickDropsHour(clickData, view) ==
    LET clicked_datetime == Clicked(clickData)
    IN  Return(create_hourly_chart(DateOf(clicked_datetime), 0), "hourly")

\* elif current_view == 'daily'
OnDailyClick(clickData, view) ==
    LET clicked_datetime == Clicked(clickData)
    IN  Return(create_hourly_chart(DateOf(clicked_datetime),
                                   HourOf(clicked_datetime)), "hourly")

\* the click on the hourly view shows the whole hour again
OnHourlyClickWholeHour(clickData, view) ==
    LET clicked_datetime == Clicked(clickData)
    IN  Return(create_hourly_chart(DateOf(clicked_datetime),
                                   HourOf(clicked_datetime)), "second")

\* elif current_view == 'hourly'
OnHourlyClick(clickData, view) ==
    LET clicked_datetime == Clicked(clickData)
    IN  Return(create_second_chart(ReplaceMinuteSecond(clicked_datetime)), "second")

\* the last line keeps the stored level
FallThroughKeepsLevel(clickData, view) == Return(create_weekly_chart, view)

\* the last line of update_graph, reached when no branch above returned
FallThrough(clickData, view) == Return(create_weekly_chart, "weekly")

\* update_graph(clickData, n_clicks, current_view) under ctx.triggered;
\* n_clicks is never read
update_graph(triggered, clickData, view) ==
    IF triggered = <<>> THEN OnNoTrigger(clickData, view)
    ELSE LET trigger_id == triggered[1].prop_id[1]
         IN  IF trigger_id = "reset-button" THEN OnReset(clickData, view)
             ELSE IF trigger_id = "chart" /\ clickData # None
                  THEN IF view = "weekly" THEN OnWeeklyClick(clickData, view)
                       ELSE IF view = "daily" THEN OnDailyClick(clickData, view)
                       ELSE IF view = "hourly" THEN OnHourlyClick(clickData, view)
                       ELSE FallThrough(clickData, view)
                  ELSE FallThrough(clickData, view)

----------------------------------------------------------------------------
(* Sessions *)

\* the axis values a click may carry: before the span, its first second, a
\* second inside an hour, the last minute of the span, after the span
ClickXs ==
    { [date |-> -1, hour |-> HoursPerDay - 1, minute |-> MinutesPerHour - 1,
       second |-> SecondsPerMinute - 1],
      [date |-> 0, hour |-> 0, minute |-> 0, second |-> 0],
      [date |-> 0, hour |-> 1, minute |-> 1, second |-> 1],
      [date |-> NumDays - 1, hour |-> HoursPerDay - 1,
       minute |-> MinutesPerHour - 1, second |-> 0],
      [date |-> NumDays, hour |-> 0, minute |-> 1, second |-> 0] }

ClickDatas == {None} \cup {ClickOn(x) : x \in ClickXs}

\* dcc.Graph(id='chart') before the first callback returns
NoFigure == [x |-> <<>>, y |-> <<>>, title |-> <<>>]

\* the arguments of a session's latest call of update_graph, and the title of
\* the figure it replaced
NoCall ==
    [called |-> FALSE, triggered |-> NoTrigger, clickData |-> None,
     current_view |-> "weekly", shown |-> <<>>]

\* the level is read from the store of the first session
StoredViewOfFirst(s) == current_view[1]

\* State('current-view', 'data'): the store of the session that calls
StoredView(s) == current_view[s]

\* the sessions (page loads) that may be served, and those being served
AllSessions == {1, 2}

Sessions == DOMAIN current_view

\* the state once the module is imported and the pages of S are loaded
InitOf(S) ==
    /\ \E seed \in Seeds :
          /\ df = WithDateHour(generate_mock_data(start_date, seed))
          /\ daily_avg = DailyAvgOf(WithDateHour(generate_mock_data(start_date, seed)))
          /\ hourly_avg = HourlyAvgOf(WithDateHour(generate_mock_data(start_date, seed)))
    /\ current_view = [s \in S |-> "weekly"]
    /\ figure = [s \in S |-> NoFigure]
    /\ last_call = [s \in S |-> NoCall]
    /\ alone = [s \in S |-> Return(NoFigure, "weekly")]
    /\ selects = [s \in S |-> 0]

Init == InitOf({1})

InitTwo == InitOf({1, 2})

\* the selection of an hour is bound to the module-level df
GlobalsAfterRebindsDf(triggered, clickData, view) ==
    IF triggered = ChartTrigger /\ clickData # None /\ view = "daily"
    THEN LET start_time == ReplaceMinuteSecond(Clicked(clickData))
             end_time == start_time + timedelta(0, 1, 0, 0)
         IN  <<SelectSeq(df, LAMBDA row : row.timestamp >= start_time
                                          /\ row.timestamp < end_time),
               daily_avg, hourly_avg>>
    ELSE <<df, daily_avg, hourly_avg>>

\* df, daily_avg and hourly_avg after a call: update_graph and the chart
\* builders bind only locals (day_data, hour_data, minute_data)
GlobalsAfter(triggered, clickData, view) == <<df, daily_avg, hourly_avg>>

\* the values the request may carry as State('current-view', 'data'): the
\* four levels update_graph returns and a value it does not know
StoredValues == {"weekly", "daily", "hourly", "second", "monthly"}

\* one page whose store holds any value when its first call arrives
InitAny ==
    /\ \E seed \in Seeds :
          /\ df = WithDateHour(generate_mock_data(start_date, seed))
          /\ daily_avg = DailyAvgOf(WithDateHour(generate_mock_data(start_date, seed)))
          /\ hourly_avg = HourlyAvgOf(WithDateHour(generate_mock_data(start_date, seed)))
    /\ \E v \in StoredValues :
          /\ current_view = [s \in {1} |-> v]
          /\ alone = [s \in {1} |-> Return(NoFigure, v)]
    /\ figure = [s \in {1} |-> NoFigure]
    /\ last_call = [s \in {1} |-> NoCall]
    /\ selects = [s \in {1} |-> 0]

\* one run of the callback for session s; alone[s] is what the same call
\* returns to a session that is the only one served, and selects[s] counts
\* (up to 3) the selects in a row since the stored level was last weekly
Callback(s, triggered, clickData) ==
    LET out == update_graph(triggered, clickData, StoredView(s))
    IN  /\ s \in Sessions
        /\ figure' = [figure EXCEPT ![s] = out.figure]
        /\ current_view' = [current_view EXCEPT ![s] = out.current_view]
        /\ last_call' = [last_call EXCEPT ![s] =
                            [called |-> TRUE, triggered |-> triggered,
                             clickData |-> clickData,
                             current_view |-> StoredView(s),
                             shown |-> figure[s].title]]
        /\ alone' = [alone EXCEPT ![s] =
                        update_graph(triggered, clickData, alone[s].current_view)]
        /\ selects' = [selects EXCEPT ![s] =
                          IF out.current_view = "weekly" THEN 0
                          ELSE IF triggered = ChartTrigger /\ clickData # None
                               THEN IF selects[s] < 3 THEN selects[s] + 1 ELSE 3
                               ELSE 0]
        /\ df' = GlobalsAfter(triggered, clickData, StoredView(s))[1]
        /\ daily_avg' = GlobalsAfter(triggered, clickData, StoredView(s))[2]
        /\ hourly_avg' = GlobalsAfter(triggered, clickData, StoredView(s))[3]

\* the call without a triggering input
Untriggered(s) ==
    /\ Callback(s, NoTrigger, None)

\* a click on the Reset button
Reset(s) ==
    \E cd \in ClickDatas :
        /\ Callback(s, ResetTrigger, cd)

\* a click on a point of the chart
Select(s) ==
    \E x \in ClickXs :
        /\ Callback(s, ChartTrigger, ClickOn(x))

\* the chart's clickData fires without click data
ChartCleared(s) ==
    /\ Callback(s, ChartTrigger, None)

Next ==
    \E s \in AllSessions :
        \/ Untriggered(s)
        \/ Reset(s)
        \/ Select(s)
        \/ ChartCleared(s)

\* one session
Spec == Init /\ [][Next]_vars

\* two sessions, their callbacks interleaved
SpecTwo == InitTwo /\ [][Next]_vars

\* one session whose store holds any value at its first call
SpecAny == InitAny /\ [][Next]_vars

----------------------------------------------------------------------------
(* Properties.  last_call[s] holds the arguments of the latest call of the  *)
(* callback for s; current_view[s] and figure[s] hold what it returned.     *)

\* the latest call was a reset
IsReset(c) == c.called /\ c.triggered = ResetTrigger

\* the latest call was a select carrying a timestamp
IsSelect(c) == c.called /\ c.triggered = ChartTrigger /\ c.clickData # None

\* the latest call was neither
IsOther(c) ==
    /\ c.called
    /\ \/ c.triggered = NoTrigger
       \/ c.triggered = ChartTrigger /\ c.clickData = None

\* the axis value the latest select carried
ClickedX(c) == c.clickData.points[1].x

\* the calendar dates the series spans
SpanDates == {daily_avg[i].date : i \in DOMAIN daily_avg}

\* the view returned for the initial call
InitialView == update_graph(NoTrigger, None, "weekly").figure

\* fig shows the daily means, one point per row of daily_avg
IsWeeklyView(fig) ==
    /\ fig.title = <<"Weekly Overview (Click on a point to see daily data)">>
    /\ Len(fig.x) = Len(daily_avg)
    /\ \A i \in DOMAIN daily_avg :
          fig.x[i] = daily_avg[i].timestamp /\ fig.y[i] = daily_avg[i].value

\* C1: a reset, from every level and after any earlier events, yields the
\* level weekly and the view the initial call returns.
C1_ResetYieldsWeekly ==
    \A s \in Sessions :
        IsReset(last_call[s]) =>
            current_view[s] = "weekly" /\ figure[s] = InitialView

\* a reset has been handled at the second level
C1_Witness ==
    \E s \in Sessions :
        /\ IsReset(last_call[s])
        /\ last_call[s].current_view = "second"
        /\ current_view[s] = "weekly"

C3_OutOfSpanSelectStaysWeekly ==
    \A s \in Sessions :
        (/\ IsSelect(last_call[s])
         /\ last_call[s].current_view = "weekly"
         /\ ClickedX(last_call[s]).date \notin SpanDates) =>
            current_view[s] = "weekly" /\ IsWeeklyView(figure[s])

\* C4: the view a call returns holds at least one data point, whatever the
\* selects and resets before it.
C4_ViewNeverEmpty ==
    \A s \in Sessions : last_call[s].called => Len(figure[s].x) >= 1

\* C5 as stated: an event that is neither a reset nor a select with a
\* timestamp leaves the level as it was.
C5_OtherEventIsNoOp ==
    \A s \in Sessions :
        IsOther(last_call[s]) => current_view[s] = last_call[s].current_view

\* C5 amended: an event that is neither a reset nor a select with a
\* timestamp yields the level weekly and the weekly view, from every level.
C5_OtherEventYieldsWeekly ==
    \A s \in Sessions :
        IsOther(last_call[s]) =>
            current_view[s] = "weekly" /\ IsWeeklyView(figure[s])

\* a chart trigger without click data has been handled at the hourly level
C5_Witness ==
    \E s \in Sessions :
        /\ IsOther(last_call[s])
        /\ last_call[s].triggered = ChartTrigger
        /\ last_call[s].current_view = "hourly"
        /\ current_view[s] = "weekly"

\* C6: from weekly, a select yields the level daily for the calendar date of
\* the clicked value, and the view holds exactly the hourly means of that
\* date, in the order of hourly_avg.
C6_WeeklySelectYieldsDaily ==
    \A s \in Sessions :
        (IsSelect(last_call[s]) /\ last_call[s].current_view = "weekly") =>
            LET date == ClickedX(last_call[s]).date
                means == SelectSeq(hourly_avg, LAMBDA row : row.date = date)
            IN  /\ current_view[s] = "daily"
                /\ figure[s].title = <<"Hourly Data for", date>>
                /\ Len(figure[s].x) = Len(means)
                /\ \A i \in DOMAIN means :
                      /\ figure[s].x[i] = means[i].timestamp
                      /\ figure[s].y[i] = means[i].value

\* a select of a value inside the span, not at midnight, has been handled at
\* weekly and the view holds the means of every hour of its date
C6_Witness ==
    \E s \in Sessions :
        /\ IsSelect(last_call[s])
        /\ last_call[s].current_view = "weekly"
        /\ ClickedX(last_call[s]).date \in SpanDates
        /\ ClickedX(last_call[s]).hour # 0
        /\ current_view[s] = "daily"
        /\ Len(figure[s].x) = HoursPerDay

\* C7: from daily, a select yields the level hourly for the date and the hour
\* of the clicked value alone, and the view holds samples of that hour only.
C7_DailySelectYieldsHourly ==
    \A s \in Sessions :
        (IsSelect(last_call[s]) /\ last_call[s].current_view = "daily") =>
            LET x == ClickedX(last_call[s])
            IN  /\ current_view[s] = "hourly"
                /\ figure[s].title = <<"Minute Data for", x.date, x.hour>>
                /\ x.date \in SpanDates => figure[s].x # <<>>
                /\ \A i \in DOMAIN figure[s].x :
                      /\ DateOf(figure[s].x[i]) = x.date
                      /\ HourOf(figure[s].x[i]) = x.hour

\* a select has been handled at daily whose date is not the date of the
\* daily view that was displayed
C7_Witness ==
    \E s \in Sessions :
        /\ IsSelect(last_call[s])
        /\ last_call[s].current_view = "daily"
        /\ last_call[s].shown[1] = "Hourly Data for"
        /\ last_call[s].shown[2] # ClickedX(last_call[s]).date
        /\ ClickedX(last_call[s]).date \in SpanDates
        /\ ClickedX(last_call[s]).hour # 0
        /\ current_view[s] = "hourly"
        /\ figure[s].x # <<>>

\* C8: from hourly, a select yields the level second for the date and the
\* hour of the clicked value with minute 0 and second 0: the window starts
\* at the top of the clicked hour and lies within its first minute.
C8_HourlySelectYieldsTopOfHour ==
    \A s \in Sessions :
        (IsSelect(last_call[s]) /\ last_call[s].current_view = "hourly") =>
            LET x == ClickedX(last_call[s])
                top == start_date + timedelta(x.date, x.hour, 0, 0)
            IN  /\ current_view[s] = "second"
                /\ figure[s].title = <<"Second-level Data for", x.date, x.hour, 0>>
                /\ x.date \in SpanDates =>
                      figure[s].x # <<>> /\ figure[s].x[1] = top
                /\ \A i \in DOMAIN figure[s].x :
                      /\ figure[s].x[i] >= top
                      /\ figure[s].x[i] < top + SecondsPerMinute

\* a select of a value with a minute and a second other than 0 has been
\* handled at hourly
C8_Witness ==
    \E s \in Sessions :
        /\ IsSelect(last_call[s])
        /\ last_call[s].current_view = "hourly"
        /\ ClickedX(last_call[s]).date \in SpanDates
        /\ ClickedX(last_call[s]).minute # 0
        /\ ClickedX(last_call[s]).second # 0
        /\ current_view[s] = "second"
        /\ figure[s].x # <<>>

\* C10: under every interleaving of the calls of two sessions, the level and
\* the view of each session are those of the same calls made to a session
\* served alone.
C10_SessionsIsolated ==
    \A s \in Sessions :
        /\ current_view[s] = alone[s].current_view
        /\ figure[s] = alone[s].figure

\* both sessions have made calls and stand at different levels
C10_Witness ==
    /\ Sessions = AllSessions
    /\ \A s \in Sessions : last_call[s].called
    /\ current_view[1] = "second"
    /\ current_view[2] = "daily"
    /\ figure[1].title # figure[2].title

\* the calendar dates of the span, by the calendar alone
CalendarDates == 0..(NumDays - 1)

\* the value of the raw sample taken at timestamp t
SampleAt(t) == df[CHOOSE n \in DOMAIN df : df[n].timestamp = t].value

\* C11: the hourly view of an hour of the span starts at the top of the hour,
\* holds timestamps below the top plus one hour, in increasing order, and
\* holds as many raw samples as an hour has seconds.
C11_HourlyViewIsTheWholeHour ==
    \A s \in Sessions :
        (/\ IsSelect(last_call[s])
         /\ last_call[s].current_view = "daily"
         /\ ClickedX(last_call[s]).date \in CalendarDates) =>
            LET x == ClickedX(last_call[s])
                top == start_date + timedelta(x.date, x.hour, 0, 0)
                xs == figure[s].x
            IN  /\ Len(xs) = SecondsPerHour
                /\ xs[1] = top
                /\ \A i \in DOMAIN xs : xs[i] < top + SecondsPerHour
                /\ \A i \in DOMAIN xs : i > 1 => xs[i - 1] < xs[i]
                /\ \A i \in DOMAIN xs : figure[s].y[i] = SampleAt(xs[i])

\* the hourly view of an hour of the span, not the first of its day, is
\* displayed after a click off the top of the hour
C11_Witness ==
    \E s \in Sessions :
        /\ IsSelect(last_call[s])
        /\ last_call[s].current_view = "daily"
        /\ ClickedX(last_call[s]).date \in CalendarDates
        /\ ClickedX(last_call[s]).hour = 1
        /\ ClickedX(last_call[s]).minute # 0
        /\ current_view[s] = "hourly"
        /\ Len(figure[s].x) = SecondsPerHour

\* C12: the second-level view reached by selecting any timestamp of an hour
\* of the span covers exactly the first minute of that hour, one sample per
\* second, whatever minute was clicked.
C12_MinuteViewIsTheFirstMinute ==
    \A s \in Sessions :
        (/\ IsSelect(last_call[s])
         /\ last_call[s].current_view = "hourly"
         /\ ClickedX(last_call[s]).date \in CalendarDates) =>
            LET x == ClickedX(last_call[s])
                top == start_date + timedelta(x.date, x.hour, 0, 0)
            IN  /\ figure[s].x = [i \in 1..SecondsPerMinute |-> top + i - 1]
                /\ \A i \in DOMAIN figure[s].x :
                      figure[s].y[i] = SampleAt(figure[s].x[i])

\* the second-level view is displayed after a click on the last minute of an
\* hour of the span
C12_Witness ==
    \E s \in Sessions :
        /\ IsSelect(last_call[s])
        /\ last_call[s].current_view = "hourly"
        /\ ClickedX(last_call[s]).date \in CalendarDates
        /\ ClickedX(last_call[s]).minute = MinutesPerHour - 1
        /\ Len(figure[s].x) = SecondsPerMinute
        /\ MinuteOf(figure[s].x[1]) = 0

\* C13: no select or reset, in any sequence, changes a raw sample or an
\* aggregate value: df, daily_avg and hourly_avg stay as built at import.
C13_DataIsReadOnly ==
    [][df' = df /\ daily_avg' = daily_avg /\ hourly_avg' = hourly_avg]_vars

\* selects down to the second level and a reset have been handled and the
\* raw series is whole
C13_Witness ==
    \E s \in Sessions :
        /\ IsReset(last_call[s])
        /\ last_call[s].current_view = "second"
        /\ last_call[s].shown[1] = "Second-level Data for"
        /\ Len(df) = NumDays * SecondsPerDay
        /\ Len(hourly_avg) = NumDays * HoursPerDay

\* two values are the same number
RatEq(a, b) == a.num * b.den = b.num * a.den

\* the rows of df with a timestamp from t up to, not including, t + length
RowsWithin(t, length) ==
    {n \in DOMAIN df : df[n].timestamp >= t /\ df[n].timestamp < t + length}

\* the sum of the values of the rows N of df
RECURSIVE SumOfRows(_)
SumOfRows(N) ==
    IF N = {} THEN 0
    ELSE LET n == CHOOSE k \in N : TRUE
         IN  df[n].value.num + SumOfRows(N \ {n})

\* C14: for every date of the span, daily_avg holds one row, whose value is
\* the arithmetic mean of exactly the samples of that date, as many as a day
\* has seconds; for every hour of it, hourly_avg holds one row, whose value
\* is the mean of exactly the samples of that hour.
C14_AggregatesAreMeans ==
    \A d \in CalendarDates :
        LET day == RowsWithin(start_date + timedelta(d, 0, 0, 0), SecondsPerDay)
            rows == {i \in DOMAIN daily_avg : daily_avg[i].date = d}
        IN  /\ Cardinality(day) = SecondsPerDay
            /\ Cardinality(rows) = 1
            /\ \A i \in rows :
                  RatEq(daily_avg[i].value, Rat(SumOfRows(day), SecondsPerDay))
            /\ \A h \in 0..(HoursPerDay - 1) :
                  LET hour == RowsWithin(start_date + timedelta(d, h, 0, 0),
                                         SecondsPerHour)
                      hrows == {i \in DOMAIN hourly_avg :
                                    hourly_avg[i].date = d /\ hourly_avg[i].hour = h}
                  IN  /\ Cardinality(hour) = SecondsPerHour
                      /\ Cardinality(hrows) = 1
                      /\ \A i \in hrows :
                            RatEq(hourly_avg[i].value,
                                  Rat(SumOfRows(hour), SecondsPerHour))

\* the aggregates are built, two days differ in their mean and two hours of
\* a day differ in theirs
C14_Witness ==
    /\ Len(daily_avg) = NumDays
    /\ Len(hourly_avg) = NumDays * HoursPerDay
    /\ \E i, j \in DOMAIN daily_avg : ~RatEq(daily_avg[i].value, daily_avg[j].value)
    /\ \E i, j \in DOMAIN hourly_avg :
          /\ hourly_avg[i].date = hourly_avg[j].date
          /\ ~RatEq(hourly_avg[i].value, hourly_avg[j].value)

\* the sum of two values
RatAdd(a, b) == Rat(a.num * b.den + b.num * a.den, a.den * b.den)

\* the sum of the values of the rows I of hourly_avg
RECURSIVE SumOfMeans(_)
SumOfMeans(I) ==
    IF I = {} THEN Rat(0, 1)
    ELSE LET i == CHOOSE k \in I : TRUE
         IN  RatAdd(hourly_avg[i].value, SumOfMeans(I \ {i}))

\* the mean of the hourly means of date d
MeanOfHourlyMeans(d) ==
    LET I == {i \in DOMAIN hourly_avg : hourly_avg[i].date = d}
    IN  Rat(SumOfMeans(I).num, SumOfMeans(I).den * Cardinality(I))

\* C15: for every date of the span, the mean of the hourly means of the date
\* equals the daily mean of the date.
C15_MeanOfHourlyMeansIsDailyMean ==
    \A i \in DOMAIN daily_avg :
        /\ daily_avg[i].date \in CalendarDates
        /\ RatEq(MeanOfHourlyMeans(daily_avg[i].date), daily_avg[i].value)

\* every date of the span has a daily mean and as many hourly means as a day
\* has hours, not all the same
C15_Witness ==
    /\ {daily_avg[i].date : i \in DOMAIN daily_avg} = CalendarDates
    /\ \A d \in CalendarDates :
          /\ Cardinality({i \in DOMAIN hourly_avg : hourly_avg[i].date = d})
                = HoursPerDay
          /\ \E i, j \in DOMAIN hourly_avg :
                /\ hourly_avg[i].date = d
                /\ hourly_avg[j].date = d
                /\ ~RatEq(hourly_avg[i].value, hourly_avg[j].value)

\* C16: the weekly view holds one point per calendar date of the span, by
\* date ascending; the daily view of a date of the span holds one point per
\* hour of that date, by hour ascending, and no point of another date.
C16_ViewsAreOrderedAndComplete ==
    \A s \in Sessions :
        /\ (last_call[s].called /\ current_view[s] = "weekly") =>
              figure[s].x =
                  [i \in 1..NumDays |-> start_date + timedelta(i - 1, 0, 0, 0)]
        /\ (/\ IsSelect(last_call[s])
            /\ last_call[s].current_view = "weekly"
            /\ ClickedX(last_call[s]).date \in CalendarDates) =>
              figure[s].x =
                  [h \in 1..HoursPerDay |->
                      start_date + timedelta(ClickedX(last_call[s]).date, h - 1, 0, 0)]

\* the daily view of the last date of the span is displayed, reached from a
\* weekly view that was displayed
C16_Witness ==
    \E s \in Sessions :
        /\ IsSelect(last_call[s])
        /\ last_call[s].current_view = "weekly"
        /\ last_call[s].shown = <<"Weekly Overview (Click on a point to see daily data)">>
        /\ ClickedX(last_call[s]).date = NumDays - 1
        /\ current_view[s] = "daily"
        /\ Len(figure[s].x) = HoursPerDay

\* a call moved the level from one level to the next finer one
OneStepFiner(from, to) ==
    <<from, to>> \in {<<"weekly", "daily">>, <<"daily", "hourly">>,
                      <<"hourly", "second">>}

\* C17: every event either moves the level exactly one step finer along
\* weekly, daily, hourly, second or returns it to weekly, and the second
\* level is reached only after three selects in a row since the level was
\* last weekly.
C17_NoLevelIsSkipped ==
    /\ [][\A s \in Sessions :
             \/ current_view'[s] = "weekly"
             \/ OneStepFiner(current_view[s], current_view'[s])]_vars
    /\ [](\A s \in Sessions : current_view[s] = "second" => selects[s] >= 3)

\* the second level is displayed after three selects in a row
C17_Witness ==
    \E s \in Sessions :
        /\ current_view[s] = "second"
        /\ selects[s] = 3
        /\ figure[s].title[1] = "Second-level Data for"

\* the levels update_graph returns
Levels == {"weekly", "daily", "hourly", "second"}

\* every point of fig is a row of hourly_avg
ShowsHourlyMeans(fig) ==
    \A i \in DOMAIN fig.x :
        \E j \in DOMAIN hourly_avg :
            hourly_avg[j].timestamp = fig.x[i] /\ hourly_avg[j].value = fig.y[i]

\* every point of fig is a raw sample, and all lie in one window of the
\* given length that starts on a multiple of it
ShowsRawSamplesOfOne(fig, length) ==
    /\ Len(fig.x) <= length
    /\ \A i \in DOMAIN fig.x :
          /\ fig.y[i] = SampleAt(fig.x[i])
          /\ (fig.x[i] - start_date) \div length
                = (fig.x[1] - start_date) \div length

\* C18: after every event, whatever value the store held before it, the
\* stored level is one of weekly, daily, hourly, second and the view returned
\* with it has its granularity: daily means, hourly means, the raw samples
\* of one hour, the raw samples of one minute.
C18_LevelMatchesView ==
    \A s \in Sessions :
        last_call[s].called =>
            /\ current_view[s] \in Levels
            /\ current_view[s] = "weekly" => IsWeeklyView(figure[s])
            /\ current_view[s] = "daily" =>
                  /\ figure[s].title[1] = "Hourly Data for"
                  /\ ShowsHourlyMeans(figure[s])
                  /\ figure[s].title[2] \in CalendarDates =>
                        Len(figure[s].x) = HoursPerDay
            /\ current_view[s] = "hourly" =>
                  /\ figure[s].title[1] = "Minute Data for"
                  /\ ShowsRawSamplesOfOne(figure[s], SecondsPerHour)
                  /\ figure[s].title[2] \in CalendarDates =>
                        Len(figure[s].x) = SecondsPerHour
            /\ current_view[s] = "second" =>
                  /\ figure[s].title[1] = "Second-level Data for"
                  /\ ShowsRawSamplesOfOne(figure[s], SecondsPerMinute)
                  /\ figure[s].title[2] \in CalendarDates =>
                        Len(figure[s].x) = SecondsPerMinute

\* a select has been handled while the store held a value update_graph does
\* not know
C18_Witness ==
    \E s \in Sessions :
        /\ IsSelect(last_call[s])
        /\ last_call[s].current_view \notin Levels
        /\ current_view[s] = "weekly"
        /\ figure[s].x # <<>>

====
